---------------------------- MODULE Spec2Model ----------------------------
(***************************************************************************)
(* A model of PMT_v2.py (ProjectManagerUI): the asset hierarchy            *)
(* (project -> category -> asset), its persistence to PMT.json and its     *)
(* mirroring onto the directory tree under <tmp>/PMT_Projects.             *)
(*                                                                         *)
(* Strings.  A string is a sequence of symbols.  A symbol is either one    *)
(* whitespace character (" " or "\t") or a piece of text that holds no     *)
(* whitespace at its ends (and none at all in display names, prefixes and  *)
(* suffixes).  The symbols used are uniquely decodable, so two sequences   *)
(* are equal exactly when the strings they spell are equal.  A symbol      *)
(* that starts with "." and ends a name is the name's extension.           *)
(*                                                                         *)
(* Dictionaries.  A Python dict whose order matters is a sequence of       *)
(* records [name, ...] with distinct names, in insertion order.            *)
(***************************************************************************)
EXTENDS Naturals, Sequences, FiniteSets, TLC

VARIABLES
    assets_hierarchy,    \* self.assets_hierarchy: <<[name, cats]>>, cats = <<[name, wrapped, assets]>>
    naming_conventions,  \* self.naming_conventions: category name -> convention
    projects,            \* self.projects / self.projects_list, in list order
    selected_project,    \* self.selected_project
    selected_category,   \* self.selected_category
    category_window,     \* self.category_window_hierarchy: [open, items]
    asset_window,        \* self.asset_window_hierarchy: [open, items]
    json_file,           \* the contents of PMT.json
    fs,                  \* the directory tree under the root: [dirs, files]
    lastOp,              \* the last handler that changed the document: its inputs and warnings
    nmut,                \* the number of mutations performed (bounds the exploration)
    other                \* what a second process of the program holds, when there is one

vars == <<assets_hierarchy, naming_conventions, projects, selected_project,
          selected_category, category_window, asset_window, json_file, fs,
          lastOp, nmut, other>>

-----------------------------------------------------------------------------
(* Bounds of the exploration *)

\* The number of document mutations (successful create/rename/delete) explored.
MaxOps == 2
\* add_project is explored while the document holds at most this many projects.
MaxProjects == 2
\* create_asset_clicked is explored while the window shows fewer assets than this.
MaxAssets == 2

-----------------------------------------------------------------------------
(* Strings *)

Whitespace == {" ", "\t"}

RECURSIVE lstrip(_)
lstrip(s) == IF s # <<>> /\ Head(s) \in Whitespace THEN lstrip(Tail(s)) ELSE s

RECURSIVE rstrip(_)
rstrip(s) ==
    IF s # <<>> /\ s[Len(s)] \in Whitespace
    THEN rstrip(SubSeq(s, 1, Len(s) - 1))
    ELSE s

\* str.strip()
strip(s) == rstrip(lstrip(s))

\* str.replace(' ', ''): only the space character is removed
replace_space(s) == SelectSeq(s, LAMBDA c : c # " ")

\* The extension symbols of the model
Extensions == {".txt", ".hipnc"}

\* os.path.splitext(name): <<root, ext>>; a leading dot starts no extension
splitext(name) ==
    IF Len(name) > 1 /\ name[Len(name)] \in Extensions
    THEN <<SubSeq(name, 1, Len(name) - 1), <<name[Len(name)]>> >>
    ELSE <<name, <<>> >>

-----------------------------------------------------------------------------
(* Names of the program *)

MasterAssets == <<"Master Assets">>
NamingConventionsKey == <<"naming_conventions">>
Meshes == <<"Meshes">>
StaticMeshes == <<"Static Meshes">>
Textures == <<"Textures">>
Simulations == <<"Simulations">>
Flipbooks == <<"Flipbooks">>

\* The value of selected_project / selected_category before any selection
None == <<"<None>">>

EmptyCategory(n) == [name |-> n, wrapped |-> FALSE, assets |-> <<>>]

\* __init__: the categories given to "Master Assets" when the file has none
MasterCategories ==
    << EmptyCategory(<<"Company Logo">>),
       EmptyCategory(<<"Marketing Materials">>),
       EmptyCategory(<<"Master Materials">>),
       EmptyCategory(<<"Master Textures">>),
       EmptyCategory(<<"Master Assets">>) >>

\* Fault for C10: a new project without its Flipbooks category
ThreeCategories ==
    << EmptyCategory(StaticMeshes),
       EmptyCategory(Textures),
       EmptyCategory(Simulations) >>

\* add_project: the categories of a new project
DefaultCategories ==
    << EmptyCategory(StaticMeshes),
       EmptyCategory(Textures),
       EmptyCategory(Simulations),
       EmptyCategory(Flipbooks) >>

\* create_hidden_folders: hidden_folders
hidden_folders == << <<"__temp">>, <<"__tools">>, <<"__config">> >>

-----------------------------------------------------------------------------
(* Dictionaries kept as sequences of named entries *)

Has(d, k) == \E i \in DOMAIN d : d[i].name = k

IndexOf(d, k) == CHOOSE i \in DOMAIN d : d[i].name = k

Get(d, k) == d[IndexOf(d, k)]

\* del d[k] / d.pop(k)
Remove(d, k) == SelectSeq(d, LAMBDA e : e.name # k)

\* d[e.name] = e: an existing key keeps its place, a new key goes last
Put(d, e) ==
    IF Has(d, e.name)
    THEN [i \in DOMAIN d |-> IF d[i].name = e.name THEN e ELSE d[i]]
    ELSE Append(d, e)

\* An asset as stored: {"display_name": ..., "db_name": ...}; is_str marks a
\* legacy entry that is a bare string (held in display_name)
Asset(display, db) == [is_str |-> FALSE, display_name |-> display, db_name |-> db]

LegacyAsset(s) == [is_str |-> TRUE, display_name |-> s, db_name |-> <<>>]

\* get_assets(project, category)
get_assets(h, project, category) == Get(Get(h, project).cats, category).assets

\* get_display_names(assets)
get_display_names(assets) == [i \in DOMAIN assets |-> assets[i].display_name]

Range(s) == {s[i] : i \in DOMAIN s}

-----------------------------------------------------------------------------
(* The document file and its loading *)

\* What json.dump writes: dict(self.assets_hierarchy) with the key
\* "naming_conventions" set to self.naming_conventions (a project of that
\* name is overwritten by it)
Dump(h, nc) ==
    [kind |-> "mapping",
     projects |-> Remove(h, NamingConventionsKey),
     others |-> {},
     has_nc |-> TRUE,
     naming_conventions |-> nc]

\* The file __init__ writes when there is none: {}
EmptyFile ==
    [kind |-> "mapping", projects |-> <<>>, others |-> {}, has_nc |-> FALSE,
     naming_conventions |-> <<>>]

\* A file json.load cannot parse
GarbageFile == [EmptyFile EXCEPT !.kind = "garbage"]

\* Fault for C13: the key "Meshes" is left as it is
NotRenamed(d) == d

\* d["Static Meshes"] = d.pop("Meshes")
RenameMeshes(d) ==
    IF Has(d, Meshes)
    THEN Put(Remove(d, Meshes), [Get(d, Meshes) EXCEPT !.name = StaticMeshes])
    ELSE d

\* Fault for C12: the db_name of every entry is derived again, not only that
\* of a string
MigrateEvery(a) == Asset(a.display_name, replace_space(a.display_name))

\* asset_list[i] = {"display_name": a, "db_name": a.replace(" ", "")}
MigrateAsset(a) ==
    IF a.is_str THEN Asset(a.display_name, replace_space(a.display_name)) ELSE a

\* The loop over asset_list, in place: a wrapper {"assets": [...]} stays a wrapper
MigrateCategory(c) ==
    [c EXCEPT !.assets = [i \in DOMAIN c.assets |-> MigrateAsset(c.assets[i])]]

MigrateProject(p) ==
    LET renamed == RenameMeshes(p.cats)
    IN  [p EXCEPT !.cats = [i \in DOMAIN renamed |-> MigrateCategory(renamed[i])]]

\* json.load raises, data.items() raises (the top level is no mapping), or
\* categories.items() raises (a project is no mapping)
LoadRaises(file) == file.kind # "mapping" \/ file.others # {}

\* Fault for C16: what was read before the exception is returned, not {}
PartlyLoaded(file) ==
    [projects |-> [i \in DOMAIN file.projects |-> MigrateProject(file.projects[i])],
     has_nc |-> FALSE,
     naming_conventions |-> <<>>]

\* load_assets_from_json: the migrated data, or {} when anything raised
load_assets_from_json(file) ==
    IF LoadRaises(file)
    THEN [projects |-> <<>>, has_nc |-> FALSE, naming_conventions |-> <<>>]
    ELSE [projects |-> [i \in DOMAIN file.projects |-> MigrateProject(file.projects[i])],
          has_nc |-> file.has_nc,
          naming_conventions |->
              IF file.has_nc THEN RenameMeshes(file.naming_conventions) ELSE <<>>]

\* Fault for C4: the loaded data is taken as it is
LoadedAsIs(h) == h

\* __init__: "Master Assets" is added when the loaded data has none
EnsureMaster(h) ==
    IF Has(h, MasterAssets)
    THEN h
    ELSE Append(h, [name |-> MasterAssets, cats |-> MasterCategories])

\* Fault for C22: list(self.assets_hierarchy.keys()) as it is
KeyList(h) == [i \in DOMAIN h |-> h[i].name]

\* __init__: list(self.assets_hierarchy.keys()) with "Master Assets" moved first
ProjectList(h) ==
    LET keys == [i \in DOMAIN h |-> h[i].name]
    IN  IF MasterAssets \in Range(keys)
        THEN <<MasterAssets>> \o SelectSeq(keys, LAMBDA k : k # MasterAssets)
        ELSE keys

-----------------------------------------------------------------------------
(* The directory tree.  A path is the sequence of names below the root;    *)
(* st = [dirs, files, err], err set once an OSError was raised.            *)

IsPrefix(p, q) == Len(p) <= Len(q) /\ SubSeq(q, 1, Len(p)) = p

Prefixes(p) == {SubSeq(p, 1, i) : i \in 1..Len(p)}

\* os.path.exists
exists(st, p) == p = <<>> \/ p \in st.dirs \/ p \in st.files

\* os.rename(old, new) as on Windows, the platform of the program: it raises
\* when new exists; otherwise the whole subtree moves
CanRename(st, old, new) ==
    exists(st, old) /\ (old = new \/ (~exists(st, new) /\ ~IsPrefix(old, new)))

Moved(old, new, q) ==
    IF IsPrefix(old, q) THEN new \o SubSeq(q, Len(old) + 1, Len(q)) ELSE q

rename(st, old, new) ==
    [st EXCEPT !.dirs = {Moved(old, new, q) : q \in @},
               !.files = {Moved(old, new, q) : q \in @}]

\* os.makedirs(p, exist_ok=True) for each p of paths in order: it raises when
\* p or a parent of p is a regular file (blocked), and the later ones are
\* not made
MakeAll(st, paths) ==
    LET blocked == {i \in DOMAIN paths : Prefixes(paths[i]) \cap st.files # {}}
        made    == IF blocked = {} THEN DOMAIN paths
                   ELSE {i \in DOMAIN paths : \A j \in blocked : i < j}
    IN  IF st.err THEN st
        ELSE [st EXCEPT !.dirs = @ \cup UNION {Prefixes(paths[i]) : i \in made},
                        !.err = blocked # {}]

RECURSIVE Flatten(_)
Flatten(ss) == IF ss = <<>> THEN <<>> ELSE Head(ss) \o Flatten(Tail(ss))


\* os.path.join(path, name): joining "" names the directory itself
join(path, name) == IF name = <<>> THEN path ELSE Append(path, name)

-----------------------------------------------------------------------------
(* save_assets_to_json: the file is written, then the tree is synchronised *)

\* sync_filesystem_with_json: the directories it makes, in the order of the loops
SyncPaths(h) ==
    Flatten([i \in DOMAIN h |->
        << <<h[i].name>> >> \o
        [j \in DOMAIN h[i].cats |-> <<h[i].name, h[i].cats[j].name>>]])

\* Fault for C6: no db_name is seen as taken
NoNames(assets) == {}

\* set(a["db_name"] for a in asset_list)
db_names(assets) == {assets[i].db_name : i \in DOMAIN assets}

\* Fault for C24: no directory under the root is taken for an orphan
NoOrphans(st, h) == {}

\* cleanup_filesystem: what the loops remove when every entry is reached.
\* Directories directly under the root that are no project
OrphanProjects(st, h) == {q \in st.dirs : Len(q) = 1 /\ ~Has(h, q[1])}

\* Directories under a known project that are none of its categories (the
\* project's own __temp, __tools and __config among them)
OrphanCategories(st, h) ==
    {q \in st.dirs : Len(q) = 2 /\ Has(h, q[1]) /\ ~Has(Get(h, q[1]).cats, q[2])}

\* Entries of a known category directory with extension .txt whose base name
\* is no db_name of the category
StrayEntries(st, h) ==
    {q \in st.dirs \cup st.files :
        /\ Len(q) = 3
        /\ Has(h, q[1])
        /\ Has(Get(h, q[1]).cats, q[2])
        /\ splitext(q[3])[2] = <<".txt">>
        /\ splitext(q[3])[1] \notin db_names(get_assets(h, q[1], q[2]))}

\* The tree without the subtrees and files named by R
Removed(st, R) ==
    [st EXCEPT !.dirs = {q \in @ : \A r \in R : ~IsPrefix(r, q)},
               !.files = {q \in @ : \A r \in R : ~IsPrefix(r, q)}]

\* cleanup_filesystem.  os.remove raises on a stray entry that is a directory;
\* os.listdir gives its names in no specified order, so what had been removed
\* before the first such entry f is any choice of: other top-level entries
\* done (TB), other entries of f's project done (CB), other stray files of
\* f's category removed (EB).
cleanup_filesystem(st, h) ==
    LET trees == OrphanProjects(st, h) \cup OrphanCategories(st, h)
        stray == StrayEntries(st, h)
        fails == stray \cap st.dirs
        R     == trees \cup (stray \cap st.files)
    IN  IF fails = {}
        THEN {Removed(st, R)}
        ELSE UNION {
            LET tops == {r[1] : r \in R} \ {g[1] : g \in fails}
                secs == {r[2] : r \in {x \in R : x[1] = f[1]}}
                            \ {g[2] : g \in {x \in fails : x[1] = f[1]}}
                ents == {r \in stray \cap st.files : r[1] = f[1] /\ r[2] = f[2]}
            IN  {[Removed(st, {r \in R : r[1] \in TB}
                              \cup {r \in R : r[1] = f[1] /\ r[2] \in CB}
                              \cup EB) EXCEPT !.err = TRUE] :
                    TB \in SUBSET tops, CB \in SUBSET secs, EB \in SUBSET ents}
            : f \in fails}

\* Fault for C2: only __temp is made
OnlyTemp(path) == << Append(path, <<"__temp">>) >>

\* The hidden folders of one directory
HiddenOf(path) == [k \in DOMAIN hidden_folders |-> Append(path, hidden_folders[k])]

\* create_hidden_folders: the directories it makes, in the order of the loops
HiddenPaths(h) ==
    Flatten([i \in DOMAIN h |->
        HiddenOf(<<h[i].name>>) \o
        Flatten([j \in DOMAIN h[i].cats |->
            HiddenOf(<<h[i].name, h[i].cats[j].name>>) \o
            Flatten([k \in DOMAIN h[i].cats[j].assets |->
                LET asset_folder ==
                        join(<<h[i].name, h[i].cats[j].name>>,
                             h[i].cats[j].assets[k].db_name)
                IN  <<asset_folder>> \o HiddenOf(asset_folder)])])])

create_hidden_folders(st, h) == MakeAll(st, HiddenPaths(h))

\* sync_filesystem_with_json: the trees it can leave, err set when it raised
sync_filesystem_with_json(tree, h) ==
    LET s1 == MakeAll([dirs |-> tree.dirs, files |-> tree.files, err |-> FALSE],
                      SyncPaths(h))
    IN  IF s1.err THEN {s1}
        ELSE {IF s2.err THEN s2 ELSE create_hidden_folders(s2, h) :
                s2 \in cleanup_filesystem(s1, h)}

-----------------------------------------------------------------------------
(* Inputs: what the user types and picks *)

\* Texts typed as a project name
ProjectTexts ==
    { <<>>, <<" ">>, MasterAssets, <<" ", "Show A", " ">>, <<"Show B">>,
      NamingConventionsKey }

\* Texts typed as an asset's display name
DisplayTexts ==
    { <<>>, <<" ">>, <<"a", " ", "b">>, <<"a", "\t", "b">>, <<"a", ".txt">> }

\* The categories whose buttons are clicked
ClickedCategories == {Textures, Simulations}

\* The naming conventions of the document files explored
Conventions ==
    << [name |-> StaticMeshes, conv |-> [prefix |-> <<"SM_">>, suffix |-> <<>>]],
       [name |-> Textures,
        conv |-> [prefix |-> <<"T_">>,
                  suffixes |-> [Diffuse |-> <<"_D">>, Normal |-> <<"_N">>]]],
       [name |-> Simulations, conv |-> [suffixes |-> [Fire |-> <<"_F">>]]] >>

\* The same conventions as an older version wrote them
LegacyConventions ==
    << [name |-> Meshes, conv |-> [prefix |-> <<"SM_">>, suffix |-> <<>>]],
       [name |-> Textures,
        conv |-> [prefix |-> <<"T_">>,
                  suffixes |-> [Diffuse |-> <<"_D">>, Normal |-> <<"_N">>]]] >>

ShowA == <<"Show A">>

ShowC == <<"Show C">>

\* A document in the current format
CanonicalFile ==
    [kind |-> "mapping",
     projects |->
        << [name |-> MasterAssets, cats |-> MasterCategories],
           [name |-> ShowA,
            cats |-> << EmptyCategory(StaticMeshes),
                        [name |-> Textures, wrapped |-> FALSE,
                         assets |-> << Asset(<<"a", "b">>, <<"T_", "a", "b", "_D">>) >>],
                        EmptyCategory(Simulations),
                        EmptyCategory(Flipbooks) >>] >>,
     others |-> {},
     has_nc |-> TRUE,
     naming_conventions |-> Conventions]

\* A document in the legacy shapes: "Meshes", bare strings, {"assets": [...]},
\* with a second project that has both "Static Meshes" and "Meshes"
LegacyFile ==
    [kind |-> "mapping",
     projects |->
        << [name |-> ShowA,
            cats |-> << [name |-> Meshes, wrapped |-> FALSE,
                         assets |-> << LegacyAsset(<<"a", " ", "b">>),
                                       LegacyAsset(<<"a", "b">>) >>],
                        [name |-> Textures, wrapped |-> TRUE,
                         assets |-> << Asset(<<"a">>, <<"T_", "a", "_D">>) >>],
                        EmptyCategory(Simulations) >>],
           [name |-> ShowC,
            cats |-> << [name |-> StaticMeshes, wrapped |-> FALSE,
                         assets |-> << Asset(<<"c">>, <<"SM_", "c">>) >>],
                        [name |-> Meshes, wrapped |-> FALSE,
                         assets |-> << LegacyAsset(<<"d">>) >>],
                        EmptyCategory(Flipbooks) >>] >>,
     others |-> {},
     has_nc |-> TRUE,
     naming_conventions |-> LegacyConventions]

\* A document one of whose projects is not a mapping: {..., "Show B": []}
MalformedFile == [CanonicalFile EXCEPT !.others = {<<"Show B">>}]

\* The document files the program is started on
DocumentFiles == {EmptyFile, GarbageFile, CanonicalFile, LegacyFile, MalformedFile}

\* __main__: the root holds PMT.json, "Master Assets" and its five folders
StartTree ==
    [dirs |-> { <<MasterAssets>> } \cup
              { <<MasterAssets, MasterCategories[i].name>> :
                    i \in DOMAIN MasterCategories },
     files |-> { << <<"PMT.json">> >> }]

\* The tree an earlier session on the canonical document left under the
\* root: the folder of its asset with two Houdini files, the folder of an
\* asset renamed since, and the folder of a project renamed since
EarlierTree ==
    LET textures == <<ShowA, Textures>>
        folder   == Append(textures, <<"T_", "a", "b", "_D">>)
    IN  [dirs |-> StartTree.dirs \cup
                  { <<ShowA>>, textures, folder,
                    Append(textures, <<"T_", "a", ".txt", "_D">>),
                    << <<"Show B">> >> },
         files |-> StartTree.files \cup
                   { Append(folder, <<"T_", "a", "b", "_D", ".hipnc">>),
                     Append(folder, <<"T_", "a", "b", "_N", ".hipnc">>) }]

\* The trees the program is started on with a document file
StartTrees(file) ==
    IF file = CanonicalFile THEN {StartTree, EarlierTree} ELSE {StartTree}

-----------------------------------------------------------------------------
(* The state after construction *)

\* What is known of the last handler that changed the document: the handler,
\* the project and category selected when it ran, the list item or button it
\* was run on, the text typed, the variant picked, and whether "Could not
\* save hierarchy" / "Failed to rename ..." was shown
Record(op, target, arg, variant, r) ==
    [op |-> op, project |-> selected_project, category |-> selected_category,
     target |-> target, arg |-> arg, variant |-> variant,
     save_error |-> r.save_error, rename_error |-> r.rename_error]

Closed == [open |-> FALSE, items |-> <<>>]

\* ProjectManagerUI.__init__ on a document file and a tree under the root
Starts(file, tree) ==
    LET data == load_assets_from_json(file)
        h    == EnsureMaster(data.projects)
    IN  /\ json_file = file
        /\ assets_hierarchy = h
        /\ naming_conventions = data.naming_conventions
        /\ projects = ProjectList(h)
        /\ selected_project = None
        /\ selected_category = None
        /\ category_window = Closed
        /\ asset_window = Closed
        /\ fs = tree
        /\ lastOp = [op |-> "__init__", project |-> None, category |-> None,
                     target |-> None, arg |-> <<>>, variant |-> "",
                     save_error |-> FALSE, rename_error |-> FALSE]
        /\ nmut = 0

\* There is no second process
NoInstance == <<>>

\* ProjectManagerUI.__init__ after __main__ made the start tree
Init ==
    /\ \E file \in DocumentFiles : \E tree \in StartTrees(file) : Starts(file, tree)
    /\ other = NoInstance

-----------------------------------------------------------------------------
(* Handlers.  A handler is the set of outcomes it can have in the current  *)
(* state: what it reports (result) and everything it leaves behind.        *)

\* A handler that returns (or raises) before it changes anything
Returns(result) ==
    [result |-> result, save_error |-> FALSE, rename_error |-> FALSE,
     h |-> assets_hierarchy, projects |-> projects, file |-> json_file,
     tree |-> fs, selected_project |-> selected_project,
     selected_category |-> selected_category,
     category_window |-> category_window, asset_window |-> asset_window]

\* HoudiniConnection.create_new_file when a supported Houdini is installed:
\* the hython script in <asset>/__config and the .hipnc file it saves
create_new_file(tree, project, category, db_name) ==
    LET asset_folder == <<project, category, db_name>>
        script_dir   == Append(asset_folder, <<"__config">>)
    IN  IF db_name = <<>> \/ Prefixes(script_dir) \cap tree.files # {}
        THEN tree
        ELSE [tree EXCEPT
                !.dirs  = @ \cup Prefixes(script_dir),
                !.files = @ \cup { Append(script_dir, db_name \o <<"_Config.py">>),
                                   Append(asset_folder, db_name \o <<".hipnc">>) }]

\* No Houdini file is made after the save
NoFile == <<>>

\* save_assets_to_json on the hierarchy h and the tree `tree`, continuing the
\* outcome r: the file is written first; a raise in the synchronisation is
\* caught and reported.  new_file = <<project, category, db_name>> when
\* create_asset_clicked goes on to make the asset's Houdini file.
save_assets_to_json(r, h, tree, new_file) ==
    { LET after == IF new_file = NoFile THEN st
                   ELSE create_new_file(st, new_file[1], new_file[2], new_file[3])
      IN  [r EXCEPT !.h = h,
                    !.file = Dump(h, naming_conventions),
                    !.tree = [dirs |-> after.dirs, files |-> after.files],
                    !.save_error = st.err]
      : st \in sync_filesystem_with_json(tree, h) }

\* add_project with `text` in project_name_input
add_project(text) ==
    LET project_name == strip(text)
        listed == [Returns("ok") EXCEPT !.projects = Append(projects, project_name)]
    IN  IF project_name = <<>> THEN {Returns("EmptyName")}
        ELSE IF project_name = MasterAssets THEN {Returns("ReservedName")}
        ELSE IF project_name \in Range(projects) THEN {Returns("AlreadyExists")}
        ELSE IF ~Has(assets_hierarchy, project_name)
        THEN save_assets_to_json(
                listed,
                Append(assets_hierarchy,
                       [name |-> project_name, cats |-> DefaultCategories]),
                fs, NoFile)
        ELSE {listed}

\* Fault for C5: no project is refused
Mutable(project_name) == FALSE

\* rename_project and delete_project refuse "Master Assets"
Immutable(project_name) == project_name = MasterAssets

\* Fault for C20: the rename is not made; the warning is shown when old exists
NeverRenames(tree, old, new) == <<tree, exists(tree, old)>>

\* os.rename(old, new) inside try/except, attempted when old exists:
\* <<the tree after it, whether the warning was shown>>
try_rename(tree, old, new) ==
    IF ~exists(tree, old) THEN <<tree, FALSE>>
    ELSE IF CanRename(tree, old, new) THEN <<rename(tree, old, new), FALSE>>
    ELSE <<tree, TRUE>>

\* rename_project with list item old_name selected (None: no selection) and
\* the dialog answered (ok, text)
rename_project(old_name, ok, text) ==
    LET new_name == strip(text)
        idx      == CHOOSE i \in DOMAIN projects : projects[i] = old_name
        moved    == try_rename(fs, <<old_name>>, <<new_name>>)
    IN  IF old_name = None THEN {Returns("NoSelection")}
        ELSE IF Immutable(old_name) THEN {Returns("Immutable")}
        ELSE IF ~(ok /\ text # <<>>) THEN {Returns("NoInput")}
        ELSE IF new_name = <<>> THEN {Returns("InvalidName")}
        ELSE IF new_name \in Range(projects) \/ new_name = MasterAssets
        THEN {Returns("AlreadyExists")}
        ELSE save_assets_to_json(
                [Returns("ok") EXCEPT !.projects = [projects EXCEPT ![idx] = new_name],
                                      !.rename_error = moved[2]],
                Put(Remove(assets_hierarchy, old_name),
                    [Get(assets_hierarchy, old_name) EXCEPT !.name = new_name]),
                moved[1], NoFile)

\* delete_project with list item project_name selected and the question answered
delete_project(project_name, yes) ==
    IF project_name = None THEN {Returns("NoSelection")}
    ELSE IF Immutable(project_name) THEN {Returns("Immutable")}
    ELSE IF ~yes THEN {Returns("Declined")}
    ELSE save_assets_to_json(
            [Returns("ok") EXCEPT
                !.projects = SelectSeq(projects, LAMBDA x : x # project_name)],
            Remove(assets_hierarchy, project_name), fs, NoFile)

\* The names of a project's categories, in order
CategoryNames(p) == [j \in DOMAIN p.cats |-> p.cats[j].name]

\* enter_selected_project with list item `project` selected, then
\* back_to_categories: the asset window closes, a category window opens
enter_selected_project(project) ==
    IF project = None THEN {Returns("NoSelection")}
    ELSE {[Returns("ok") EXCEPT
            !.selected_project = project,
            !.asset_window = Closed,
            !.category_window =
                [open |-> TRUE,
                 items |-> CategoryNames(Get(assets_hierarchy, project))]]}

\* self.assets_hierarchy[project][category] raises KeyError
KeyError(h, project, category) ==
    ~Has(h, project) \/ ~Has(Get(h, project).cats, category)

\* show_asset_buttons: the asset window for the selected project and category
AssetWindow(h, project, category) ==
    [open |-> TRUE, items |-> get_display_names(get_assets(h, project, category))]

\* category_button_clicked on the button `category` of the category window:
\* selected_category is set before show_asset_buttons looks the assets up
category_button_clicked(category) ==
    IF KeyError(assets_hierarchy, selected_project, category)
    THEN {[Returns("KeyError") EXCEPT !.selected_category = category]}
    ELSE {[Returns("ok") EXCEPT
            !.selected_category = category,
            !.asset_window = AssetWindow(assets_hierarchy, selected_project, category)]}

\* self.naming_conventions.get(category, {})
NoConvention == [x \in {} |-> <<>>]

Convention(nc, category) ==
    IF Has(nc, category) THEN Get(nc, category).conv ELSE NoConvention

\* convention.get(key, "")
ConvGet(convention, key) ==
    IF key \in DOMAIN convention THEN convention[key] ELSE <<>>

\* The "Texture Type" dialog is shown
AsksVariant(nc, category) ==
    category = Textures /\ "suffixes" \in DOMAIN Convention(nc, category)

\* What the variant dialog can return: a key of "suffixes", or "" when no
\* dialog is shown
VariantChoices(nc, category) ==
    IF AsksVariant(nc, category)
    THEN DOMAIN Convention(nc, category).suffixes
    ELSE {""}

\* f"{prefix}{display_name.replace(' ', '')}{suffix}"
DbName(nc, category, display_name, variant) ==
    LET convention == Convention(nc, category)
        prefix == ConvGet(convention, "prefix")
        suffix == IF AsksVariant(nc, category)
                  THEN convention.suffixes[variant]
                  ELSE ConvGet(convention, "suffix")
    IN  prefix \o replace_space(display_name) \o suffix

\* The hierarchy with the asset list of (project, category) set to `assets`
WithAssets(h, project, category, assets) ==
    LET p == Get(h, project)
        c == Get(p.cats, category)
    IN  Put(h, [p EXCEPT !.cats = Put(p.cats, [c EXCEPT !.assets = assets])])

\* create_asset_clicked in the open asset window: the name dialog answered
\* (ok, display_name), the variant dialog (when shown) answered
\* (variant_ok, variant); houdini: check_houdini_version finds an installation
create_asset_clicked(display_name, ok, variant, variant_ok, houdini) ==
    LET db_name == DbName(naming_conventions, selected_category, display_name, variant)
        assets  == get_assets(assets_hierarchy, selected_project, selected_category)
        h       == WithAssets(assets_hierarchy, selected_project, selected_category,
                              Append(assets, Asset(display_name, db_name)))
    IN  IF ~(ok /\ display_name # <<>>) THEN {Returns("NoInput")}
        ELSE IF AsksVariant(naming_conventions, selected_category) /\ ~variant_ok
        THEN {Returns("NoVariant")}
        ELSE IF KeyError(assets_hierarchy, selected_project, selected_category)
        THEN {Returns("KeyError")}
        ELSE IF db_name \in db_names(assets) THEN {Returns("Duplicate")}
        ELSE save_assets_to_json(
                [Returns("ok") EXCEPT
                    !.asset_window = AssetWindow(h, selected_project, selected_category)],
                h, fs,
                IF houdini THEN <<selected_project, selected_category, db_name>>
                ELSE NoFile)

\* find_asset_by_display_name: the index of the first match, 0 for None
find_asset_by_display_name(assets, display_name) ==
    IF \E i \in DOMAIN assets : assets[i].display_name = display_name
    THEN CHOOSE i \in DOMAIN assets :
            /\ assets[i].display_name = display_name
            /\ \A j \in 1..(i - 1) : assets[j].display_name # display_name
    ELSE 0

\* edit_asset_clicked on the asset button display_name: the name dialog
\* answered (ok, new_display_name), the variant dialog (variant_ok, variant)
edit_asset_clicked(display_name, ok, new_display_name, variant, variant_ok) ==
    LET assets      == get_assets(assets_hierarchy, selected_project, selected_category)
        k           == find_asset_by_display_name(assets, display_name)
        asset       == assets[k]
        new_db_name == DbName(naming_conventions, selected_category,
                              new_display_name, variant)
        old_db_name == asset.db_name
        category_path    == <<selected_project, selected_category>>
        old_asset_folder == join(category_path, old_db_name)
        new_asset_folder == join(category_path, new_db_name)
        old_file_path    == Append(old_asset_folder, old_db_name \o <<".hipnc">>)
        new_file_path    == Append(old_asset_folder, new_db_name \o <<".hipnc">>)
        file_moved   == try_rename(fs, old_file_path, new_file_path)
        folder_moved == try_rename(file_moved[1], old_asset_folder, new_asset_folder)
        h == WithAssets(assets_hierarchy, selected_project, selected_category,
                        [assets EXCEPT ![k] = Asset(new_display_name, new_db_name)])
    IN  IF KeyError(assets_hierarchy, selected_project, selected_category)
        THEN {Returns("KeyError")}
        ELSE IF k = 0 THEN {Returns("NotFound")}
        ELSE IF ~(ok /\ new_display_name # <<>>) THEN {Returns("NoInput")}
        ELSE IF AsksVariant(naming_conventions, selected_category) /\ ~variant_ok
        THEN {Returns("NoVariant")}
        ELSE IF \E i \in DOMAIN assets :
                    assets[i] # asset /\ assets[i].db_name = new_db_name
        THEN {Returns("Duplicate")}
        ELSE save_assets_to_json(
                [Returns("ok") EXCEPT
                    !.asset_window = AssetWindow(h, selected_project, selected_category),
                    !.rename_error = file_moved[2] \/ folder_moved[2]],
                h, folder_moved[1], NoFile)

\* edit_asset_clicked on accepted input, statement by statement: what the
\* program holds at the moment each os.rename is called (the calls are made
\* when the old path exists), in the order of the calls.  The hierarchy is
\* updated and saved after both calls.
edit_asset_renames(display_name, new_display_name, variant) ==
    LET assets      == get_assets(assets_hierarchy, selected_project, selected_category)
        k           == find_asset_by_display_name(assets, display_name)
        new_db_name == DbName(naming_conventions, selected_category,
                              new_display_name, variant)
        old_db_name == assets[k].db_name
        category_path    == <<selected_project, selected_category>>
        old_asset_folder == join(category_path, old_db_name)
        new_asset_folder == join(category_path, new_db_name)
        old_file_path    == Append(old_asset_folder, old_db_name \o <<".hipnc">>)
        new_file_path    == Append(old_asset_folder, new_db_name \o <<".hipnc">>)
        file_moved   == try_rename(fs, old_file_path, new_file_path)
        call(tree, old, new) ==
            IF exists(tree, old)
            THEN << [old |-> old, new |-> new, k |-> k, db_name |-> new_db_name,
                     h |-> assets_hierarchy, file |-> json_file] >>
            ELSE <<>>
    IN  call(fs, old_file_path, new_file_path)
        \o call(file_moved[1], old_asset_folder, new_asset_folder)

\* assets.remove(asset): the list without its first element equal to asset
RemoveFirst(assets, asset) ==
    LET k == CHOOSE i \in DOMAIN assets :
                assets[i] = asset /\ \A j \in 1..(i - 1) : assets[j] # asset
    IN  [i \in 1..(Len(assets) - 1) |-> IF i < k THEN assets[i] ELSE assets[i + 1]]

\* delete_asset_clicked on the asset button display_name, the question answered
delete_asset_clicked(display_name, yes) ==
    LET assets == get_assets(assets_hierarchy, selected_project, selected_category)
        k      == find_asset_by_display_name(assets, display_name)
        h      == WithAssets(assets_hierarchy, selected_project, selected_category,
                             RemoveFirst(assets, assets[k]))
    IN  IF KeyError(assets_hierarchy, selected_project, selected_category)
        THEN {Returns("KeyError")}
        ELSE IF k = 0 THEN {Returns("NotFound")}
        ELSE IF ~yes THEN {Returns("Declined")}
        ELSE save_assets_to_json(
                [Returns("ok") EXCEPT
                    !.asset_window = AssetWindow(h, selected_project, selected_category)],
                h, fs, NoFile)

-----------------------------------------------------------------------------
(* The specification: the user runs the handlers; each run is one step.    *)
(* A run that changes nothing is a stuttering step.                        *)

\* The outcome r of a handler becomes the next state
Becomes(r) ==
    /\ assets_hierarchy' = r.h
    /\ projects' = r.projects
    /\ json_file' = r.file
    /\ fs' = r.tree
    /\ selected_project' = r.selected_project
    /\ selected_category' = r.selected_category
    /\ category_window' = r.category_window
    /\ asset_window' = r.asset_window
    /\ naming_conventions' = naming_conventions
    /\ other' = other

\* A run of a handler that saves the document: recorded when it did
Changes(r, op, target, arg, variant) ==
    /\ Becomes(r)
    /\ IF r.result = "ok"
       THEN lastOp' = Record(op, target, arg, variant, r) /\ nmut' = nmut + 1
       ELSE UNCHANGED <<lastOp, nmut>>

\* A run that changed only what is shown or selected
Shows(r) ==
    /\ Becomes(r)
    /\ UNCHANGED <<lastOp, nmut>>

\* What can be selected in the project list
Selectable == Range(projects) \cup {None}

\* The asset window is open and shows the buttons of an asset list
Buttons == IF asset_window.open THEN Range(asset_window.items) ELSE {}

AddProject ==
    /\ nmut < MaxOps
    /\ Len(assets_hierarchy) <= MaxProjects
    /\ \E text \in ProjectTexts : \E r \in add_project(text) :
        Changes(r, "add_project", None, text, "")

RenameProject ==
    /\ nmut < MaxOps
    /\ \E old_name \in Selectable, ok \in BOOLEAN, text \in ProjectTexts :
        \E r \in rename_project(old_name, ok, text) :
            Changes(r, "rename_project", old_name, text, "")

DeleteProject ==
    /\ nmut < MaxOps
    /\ \E project_name \in Selectable, yes \in BOOLEAN :
        \E r \in delete_project(project_name, yes) :
            Changes(r, "delete_project", project_name, <<>>, "")

EnterProject ==
    \E project \in Selectable : \E r \in enter_selected_project(project) :
        Shows(r)

ClickCategory ==
    /\ category_window.open
    /\ \E category \in Range(category_window.items) \cap ClickedCategories :
        \E r \in category_button_clicked(category) : Shows(r)

CreateAsset ==
    /\ nmut < MaxOps
    /\ asset_window.open
    /\ Len(asset_window.items) < MaxAssets
    /\ \E display_name \in DisplayTexts, ok \in BOOLEAN, variant_ok \in BOOLEAN,
          houdini \in BOOLEAN,
          variant \in VariantChoices(naming_conventions, selected_category) :
        \E r \in create_asset_clicked(display_name, ok, variant, variant_ok, houdini) :
            Changes(r, "create_asset_clicked", None, display_name, variant)

EditAsset ==
    /\ nmut < MaxOps
    /\ \E display_name \in Buttons, ok \in BOOLEAN, variant_ok \in BOOLEAN,
          new_display_name \in DisplayTexts,
          variant \in VariantChoices(naming_conventions, selected_category) :
        \E r \in edit_asset_clicked(display_name, ok, new_display_name,
                                    variant, variant_ok) :
            Changes(r, "edit_asset_clicked", display_name, new_display_name, variant)

DeleteAsset ==
    /\ nmut < MaxOps
    /\ \E display_name \in Buttons, yes \in BOOLEAN :
        \E r \in delete_asset_clicked(display_name, yes) :
            Changes(r, "delete_asset_clicked", display_name, <<>>, "")

Next ==
    \/ AddProject
    \/ RenameProject
    \/ DeleteProject
    \/ EnterProject
    \/ ClickCategory
    \/ CreateAsset
    \/ EditAsset
    \/ DeleteAsset

Spec == Init /\ [][Next]_vars

-----------------------------------------------------------------------------
(* Two processes of the program on the same PMT.json and the same root.    *)
(* The handlers run in the process the user works in; `other` holds what   *)
(* the second process has in memory.  The file and the tree are shared,    *)
(* and nothing locks them.                                                 *)

\* What the process the user works in holds
Instance ==
    [assets_hierarchy |-> assets_hierarchy,
     naming_conventions |-> naming_conventions,
     projects |-> projects,
     selected_project |-> selected_project,
     selected_category |-> selected_category,
     category_window |-> category_window,
     asset_window |-> asset_window]

\* The document files the two processes are started on
SharedFiles == {EmptyFile, CanonicalFile}

\* Both processes are started on the same document file and hold what
\* __init__ loaded from it
InitTwo ==
    /\ \E file \in SharedFiles : Starts(file, StartTree)
    /\ other = Instance

\* The user turns to the other process
Switch ==
    /\ nmut < MaxOps
    /\ assets_hierarchy' = other.assets_hierarchy
    /\ naming_conventions' = other.naming_conventions
    /\ projects' = other.projects
    /\ selected_project' = other.selected_project
    /\ selected_category' = other.selected_category
    /\ category_window' = other.category_window
    /\ asset_window' = other.asset_window
    /\ other' = Instance
    /\ UNCHANGED <<json_file, fs, lastOp, nmut>>

NextTwo ==
    \/ Next
    \/ Switch

TwoInstances == InitTwo /\ [][NextTwo]_vars

-----------------------------------------------------------------------------
(* Properties *)

\* The asset lists of the document, each with its project and category
Categories ==
    UNION {{[project |-> assets_hierarchy[i].name,
             category |-> assets_hierarchy[i].cats[j].name,
             assets |-> assets_hierarchy[i].cats[j].assets] :
                j \in DOMAIN assets_hierarchy[i].cats} :
           i \in DOMAIN assets_hierarchy}

\* The last handler that changed the document saved it and synchronised the
\* directory tree without a warning
Synchronised == lastOp.op # "__init__" /\ ~lastOp.save_error

AssetOps == {"create_asset_clicked", "edit_asset_clicked"}

\* C1: in every reachable state, whatever document was loaded, no two assets
\* of the same category of the same project have the same db_name.
C1_UniqueIdentifiers ==
    \A c \in Categories : \A i, j \in DOMAIN c.assets :
        i # j => c.assets[i].db_name # c.assets[j].db_name

\* C2: after a change whose save showed no warning, every project, category
\* and asset of the document has its directory, and each of these directories
\* holds __temp, __tools and __config.
C2_DirectoriesExist ==
    Synchronised =>
        \A c \in Categories :
            LET owners == {<<c.project>>, <<c.project, c.category>>}
                            \cup {join(<<c.project, c.category>>, c.assets[i].db_name) :
                                    i \in DOMAIN c.assets}
            IN  \A d \in owners :
                    /\ d \in fs.dirs
                    /\ \A k \in DOMAIN hidden_folders :
                            Append(d, hidden_folders[k]) \in fs.dirs

\* C2 witness: an asset was created, the save showed no warning, and the
\* asset's directory with its hidden folders is there
C2_Witness ==
    /\ lastOp.op = "create_asset_clicked"
    /\ ~lastOp.save_error
    /\ \E c \in Categories : \E i \in DOMAIN c.assets :
        /\ c.assets[i].display_name = lastOp.arg
        /\ c.assets[i].db_name # <<>>
        /\ <<c.project, c.category, c.assets[i].db_name, <<"__config">>>> \in fs.dirs

\* A directory name that is none of the hidden folders
Visible(name) == \A k \in DOMAIN hidden_folders : name # hidden_folders[k]

\* C3: after a change whose save showed no warning, every non-hidden
\* directory at project, category or asset level belongs to a project,
\* category or asset that is in the document; in particular the directory of
\* a deleted asset is gone.
C3_NoOrphanDirectories ==
    Synchronised =>
        \A d \in fs.dirs :
            /\ Len(d) = 1 => Has(assets_hierarchy, d[1])
            /\ (Len(d) = 2 /\ Visible(d[2])) =>
                    \E c \in Categories : c.project = d[1] /\ c.category = d[2]
            /\ (Len(d) = 3 /\ Visible(d[2]) /\ Visible(d[3])) =>
                    \E c \in Categories :
                        /\ c.project = d[1] /\ c.category = d[2]
                        /\ \E i \in DOMAIN c.assets : c.assets[i].db_name = d[3]

\* The number of entries named `name` in a sequence of named entries
Count(d, name) == Cardinality({i \in DOMAIN d : d[i].name = name})

\* "Master Assets" is there exactly once, in the document and in the list
OneMasterAssets ==
    /\ Count(assets_hierarchy, MasterAssets) = 1
    /\ Cardinality({i \in DOMAIN projects : projects[i] = MasterAssets}) = 1

\* C4: in every reachable state the document holds exactly one project named
\* "Master Assets", and no step changes its categories (so none renames it,
\* deletes it or gives its name to another project).
C4_MasterAssetsFixed ==
    /\ []OneMasterAssets
    /\ [][Get(assets_hierarchy', MasterAssets).cats
            = Get(assets_hierarchy, MasterAssets).cats]_vars

\* C4 witness: a project was renamed or deleted and "Master Assets" is still
\* the first project of the list
C4_Witness ==
    /\ lastOp.op \in {"rename_project", "delete_project"}
    /\ projects[1] = MasterAssets
    /\ OneMasterAssets

\* The outcome r left document, project list, file and tree as they are
Untouched(r) ==
    /\ r.h = assets_hierarchy
    /\ r.projects = projects
    /\ r.file = json_file
    /\ r.tree = fs

\* C5: renaming "Master Assets" to anything and deleting "Master Assets" fail
\* and leave the document, the project list, the file and the tree unchanged.
C5_MasterAssetsImmutable ==
    /\ \A ok \in BOOLEAN, text \in ProjectTexts :
        \A r \in rename_project(MasterAssets, ok, text) :
            r.result # "ok" /\ Untouched(r)
    /\ \A yes \in BOOLEAN :
        \A r \in delete_project(MasterAssets, yes) :
            r.result # "ok" /\ Untouched(r)

\* C5 witness: with another project in the list and an earlier change saved,
\* renaming "Master Assets" to a free name and deleting it are refused
C5_Witness ==
    /\ nmut > 0
    /\ Len(projects) > 1
    /\ <<"Show B">> \notin Range(projects)
    /\ rename_project(MasterAssets, TRUE, <<"Show B">>) = {Returns("Immutable")}
    /\ delete_project(MasterAssets, TRUE) = {Returns("Immutable")}

\* The asset window shows a category that is in the document
Browsing ==
    asset_window.open /\ ~KeyError(assets_hierarchy, selected_project, selected_category)

\* The assets of the category shown
Shown == get_assets(assets_hierarchy, selected_project, selected_category)

\* The name dialog and the variant dialog (when one is shown) were accepted
\* with a name typed
Accepted(display_name, ok, variant_ok) ==
    /\ ok /\ display_name # <<>>
    /\ AsksVariant(naming_conventions, selected_category) => variant_ok

\* The db_name that display_name and variant resolve to in the category shown
Resolved(display_name, variant) ==
    DbName(naming_conventions, selected_category, display_name, variant)

\* The handler refused with a warning and changed nothing
Refused(outcomes) == \A r \in outcomes : r.result # "ok" /\ Untouched(r)

\* C6: a validation error changes nothing: add_project with the reserved or
\* an existing name, rename_project to an empty, existing or reserved name,
\* create_asset_clicked whose db_name is already in the category, and
\* edit_asset_clicked whose new db_name is that of another asset of the
\* category.
C6_ValidationChangesNothing ==
    /\ \A text \in ProjectTexts :
        (strip(text) = MasterAssets \/ strip(text) \in Range(projects))
            => Refused(add_project(text))
    /\ \A old_name \in Range(projects), text \in ProjectTexts :
        (\/ strip(text) = <<>>
         \/ strip(text) = MasterAssets
         \/ strip(text) \in Range(projects))
            => Refused(rename_project(old_name, TRUE, text))
    /\ Browsing =>
        \A display_name \in DisplayTexts, ok \in BOOLEAN, variant_ok \in BOOLEAN,
           houdini \in BOOLEAN,
           variant \in VariantChoices(naming_conventions, selected_category) :
            (/\ Accepted(display_name, ok, variant_ok)
             /\ \E i \in DOMAIN Shown :
                    Shown[i].db_name = Resolved(display_name, variant))
                => Refused(create_asset_clicked(display_name, ok, variant,
                                                variant_ok, houdini))
    /\ Browsing =>
        \A k \in DOMAIN Shown, new_display_name \in DisplayTexts,
           ok \in BOOLEAN, variant_ok \in BOOLEAN,
           variant \in VariantChoices(naming_conventions, selected_category) :
            (/\ Accepted(new_display_name, ok, variant_ok)
             /\ find_asset_by_display_name(Shown, Shown[k].display_name) = k
             /\ \E i \in DOMAIN Shown :
                    i # k /\ Shown[i].db_name = Resolved(new_display_name, variant))
                => Refused(edit_asset_clicked(Shown[k].display_name, ok,
                                              new_display_name, variant, variant_ok))

\* C6 witness: an asset was created, and creating another one that resolves
\* to its db_name is refused as a duplicate; so is adding a project under the
\* name of one that is there
C6_Witness ==
    /\ lastOp.op = "create_asset_clicked"
    /\ Browsing
    /\ \E display_name \in DisplayTexts,
          variant \in VariantChoices(naming_conventions, selected_category) :
        /\ \E i \in DOMAIN Shown : Shown[i].db_name = Resolved(display_name, variant)
        /\ create_asset_clicked(display_name, TRUE, variant, TRUE, TRUE)
                = {Returns("Duplicate")}
    /\ \E text \in ProjectTexts :
        /\ strip(text) \in Range(projects) \ {MasterAssets}
        /\ add_project(text) = {Returns("AlreadyExists")}

\* The category's naming convention is in variant form
VariantForm(category) ==
    "suffixes" \in DOMAIN Convention(naming_conventions, category)

\* C7: in a category whose convention is in variant form no asset is created
\* or renamed without a variant being picked: the db_name stored ends with
\* the suffix of the variant picked, never with a default or empty one.
C7_VariantRequired ==
    (lastOp.op \in AssetOps /\ VariantForm(lastOp.category)) =>
        lastOp.variant \in DOMAIN Convention(naming_conventions, lastOp.category).suffixes

\* C8: no asset is created or renamed with a display name that is empty
\* after trimming, the name stored is the trimmed one, and no asset of the
\* document has an empty or whitespace-only display name.
C8_DisplayNameTrimmed ==
    /\ lastOp.op \in AssetOps =>
            strip(lastOp.arg) # <<>> /\ strip(lastOp.arg) = lastOp.arg
    /\ \A c \in Categories : \A i \in DOMAIN c.assets :
            strip(c.assets[i].display_name) # <<>>

\* The name with every whitespace character removed
RemoveWhitespace(s) == SelectSeq(s, LAMBDA ch : ch \notin Whitespace)

\* The suffix the convention gives: suffixes[variant] in variant form
ConventionSuffix(category, variant) ==
    LET convention == Convention(naming_conventions, category)
    IN  IF VariantForm(category)
        THEN IF variant \in DOMAIN convention.suffixes
             THEN convention.suffixes[variant]
             ELSE <<"?">>
        ELSE ConvGet(convention, "suffix")

\* C9: the db_name stored by create_asset_clicked and edit_asset_clicked is
\* prefix + display name without any whitespace + suffix, with prefix and
\* suffix from the category's convention, and holds no whitespace.
C9_IdentifierDerivation ==
    lastOp.op \in AssetOps =>
        \E i \in DOMAIN get_assets(assets_hierarchy, lastOp.project, lastOp.category) :
            LET asset == get_assets(assets_hierarchy, lastOp.project, lastOp.category)[i]
            IN  /\ asset.display_name = lastOp.arg
                /\ asset.db_name =
                        ConvGet(Convention(naming_conventions, lastOp.category), "prefix")
                        \o RemoveWhitespace(lastOp.arg)
                        \o ConventionSuffix(lastOp.category, lastOp.variant)
                /\ \A n \in DOMAIN asset.db_name : asset.db_name[n] \notin Whitespace

\* The document after project `name` was added with the four default
\* categories, each empty, behind the projects that were there
WithNewProject(name) ==
    Append(assets_hierarchy,
           [name |-> name,
            cats |-> << EmptyCategory(StaticMeshes), EmptyCategory(Textures),
                        EmptyCategory(Simulations), EmptyCategory(Flipbooks) >>])

\* add_project with text added the project `name`: one project more, last in
\* the list and in the document, the others as they were, the file written
\* and the tree synchronised (or a warning shown)
Added(text, name) ==
    \A r \in add_project(text) :
        /\ r.result = "ok"
        /\ r.h = WithNewProject(name)
        /\ r.projects = Append(projects, name)
        /\ r.file = Dump(r.h, naming_conventions)
        /\ r.save_error \/ \A k \in DOMAIN r.h[Len(r.h)].cats :
                                <<name, r.h[Len(r.h)].cats[k].name>> \in r.tree.dirs

\* add_project refuses the reserved name and the names in the list
RefusesTaken ==
    /\ \A r \in add_project(MasterAssets) : r.result = "ReservedName" /\ Untouched(r)
    /\ \A name \in Range(projects) \ {MasterAssets} :
        \A r \in add_project(name) : r.result = "AlreadyExists" /\ Untouched(r)

\* C10 as stated: every non-empty name that is neither "Master Assets" nor in
\* the list is added as typed; the reserved name and the names in the list
\* are refused.
C10_AddsAnyNonEmptyName ==
    /\ RefusesTaken
    /\ \A text \in ProjectTexts :
        (text # <<>> /\ text # MasterAssets /\ text \notin Range(projects))
            => Added(text, text)

\* Names not yet in the list, for as long as changes are explored
FreeTexts ==
    IF nmut < MaxOps
    THEN {text \in ProjectTexts :
            /\ strip(text) # <<>>
            /\ strip(text) # MasterAssets
            /\ strip(text) \notin Range(projects)}
    ELSE {}

\* C10 amended: the name is trimmed first; a name that is non-empty after
\* trimming and neither "Master Assets" nor in the list is added in its
\* trimmed form; the reserved name and the names in the list are refused.
C10_AddsTrimmedName ==
    /\ RefusesTaken
    /\ \A text \in FreeTexts : Added(text, strip(text))

\* C10 witness: " Show A " was typed and "Show A" is the last project, with
\* four empty categories and its directories
C10_Witness ==
    /\ lastOp.op = "add_project"
    /\ lastOp.arg = <<" ", "Show A", " ">>
    /\ projects[Len(projects)] = ShowA
    /\ assets_hierarchy[Len(assets_hierarchy)].name = ShowA
    /\ Len(assets_hierarchy[Len(assets_hierarchy)].cats) = 4
    /\ <<ShowA, Flipbooks>> \in fs.dirs

\* The project list a start on the document file gives
Reloaded(file) == ProjectList(EnsureMaster(load_assets_from_json(file).projects))

\* The position of an element in a sequence that holds it
Position(seq, x) == CHOOSE i \in DOMAIN seq : seq[i] = x

\* The step is a successful run of handler op
Ran(op) == nmut' = nmut + 1 /\ lastOp'.op = op

\* C11: a successful rename_project keeps the project at its position in the
\* project list and in the document mapping, so that the project list a
\* restart gives is the old one with the new name in place of the old, and
\* the project keeps its categories and assets.
C11_RenameKeepsPosition ==
    [][Ran("rename_project") =>
        LET old_name == lastOp'.target
            new_name == strip(lastOp'.arg)
        IN  /\ Has(assets_hierarchy', new_name)
            /\ Get(assets_hierarchy', new_name).cats
                    = Get(assets_hierarchy, old_name).cats
            /\ projects' = [projects EXCEPT ![Position(projects, old_name)] = new_name]
            /\ IndexOf(assets_hierarchy', new_name)
                    = IndexOf(assets_hierarchy, old_name)
            /\ Reloaded(json_file') = projects']_vars


----------------------------------------------------------------------------
(* Migration *)

\* The document load_assets_from_json returns, written as a raw document
Normalize(file) ==
    LET data == load_assets_from_json(file)
    IN  [kind |-> "mapping",
         projects |-> data.projects,
         others |-> {},
         has_nc |-> data.has_nc,
         naming_conventions |-> data.naming_conventions]

\* A dict has no key "Meshes"
NoMeshes(d) == ~Has(d, Meshes)

\* Every category of the projects is a bare list
BareLists(h) ==
    \A i \in DOMAIN h : \A j \in DOMAIN h[i].cats : ~h[i].cats[j].wrapped

\* No asset of the projects is a bare string
NoStrings(h) ==
    \A i \in DOMAIN h : \A j \in DOMAIN h[i].cats :
        \A k \in DOMAIN h[i].cats[j].assets : ~h[i].cats[j].assets[k].is_str

\* A raw document in today's form
Canonical(file) ==
    /\ ~LoadRaises(file)
    /\ \A i \in DOMAIN file.projects : NoMeshes(file.projects[i].cats)
    /\ NoMeshes(file.naming_conventions)
    /\ BareLists(file.projects)
    /\ NoStrings(file.projects)

\* C12: migration is idempotent: for a document file that loads without error,
\* loading the loaded document gives the loaded document again, and loading a
\* document that is already in today's form changes nothing
C12_MigrationIdempotent ==
    ~LoadRaises(json_file) =>
        /\ Normalize(Normalize(json_file)) = Normalize(json_file)
        /\ Canonical(json_file) =>
               /\ Normalize(json_file).projects = json_file.projects
               /\ Normalize(json_file).naming_conventions = json_file.naming_conventions

\* A legacy document has been loaded and migration changed it
C12_Witness ==
    /\ nmut = 0
    /\ json_file = LegacyFile
    /\ Normalize(json_file) # json_file
    /\ assets_hierarchy = EnsureMaster(Normalize(json_file).projects)

\* A string with its spaces removed
NoSpaces(str) == SelectSeq(str, LAMBDA ch : ch # " ")

\* What an entry of a legacy list is expected to become
Upgraded(a) ==
    IF a.is_str
    THEN [is_str |-> FALSE, display_name |-> a.display_name,
          db_name |-> NoSpaces(a.display_name)]
    ELSE a

\* The name a legacy key is expected to have after load
NewName(name) == IF name = Meshes THEN StaticMeshes ELSE name

\* The value of the key is the one that the value of "Meshes" replaces
Replaced(d, name) == name = StaticMeshes /\ Has(d, Meshes)

\* C13: loading renames every category "Meshes" to "Static Meshes", in every
\* project and in the naming conventions, and replaces every bare string s
\* by the asset with display name s and db_name s without its spaces; after
\* load, no category is named "Meshes" and no asset is a bare string
C13_LegacyUpgraded ==
    /\ ~LoadRaises(json_file) =>
           LET data == load_assets_from_json(json_file)
           IN  /\ Len(data.projects) = Len(json_file.projects)
               /\ \A i \in DOMAIN json_file.projects :
                      LET old == json_file.projects[i].cats
                          new == data.projects[i].cats
                      IN  /\ data.projects[i].name = json_file.projects[i].name
                          /\ NoMeshes(new)
                          /\ \A j \in DOMAIN old :
                                 /\ Has(new, NewName(old[j].name))
                                 /\ ~Replaced(old, old[j].name) =>
                                        Get(new, NewName(old[j].name)).assets =
                                            [k \in DOMAIN old[j].assets |-> Upgraded(old[j].assets[k])]
               /\ NoMeshes(data.naming_conventions)
               /\ \A j \in DOMAIN json_file.naming_conventions :
                      LET old == json_file.naming_conventions[j]
                      IN  /\ Has(data.naming_conventions, NewName(old.name))
                          /\ Get(data.naming_conventions, NewName(old.name)) =
                                 [old EXCEPT !.name = NewName(old.name)]
    /\ \A i \in DOMAIN assets_hierarchy : NoMeshes(assets_hierarchy[i].cats)
    /\ NoStrings(assets_hierarchy)
    /\ NoMeshes(naming_conventions)

\* A document with a category "Meshes" of bare strings, one of them with a
\* space, and a convention for "Meshes" has been loaded
C13_Witness ==
    /\ nmut = 0
    /\ \E i \in DOMAIN json_file.projects :
           /\ Has(json_file.projects[i].cats, Meshes)
           /\ \E k \in DOMAIN Get(json_file.projects[i].cats, Meshes).assets :
                  LET a == Get(json_file.projects[i].cats, Meshes).assets[k]
                  IN  a.is_str /\ NoSpaces(a.display_name) # a.display_name
           /\ Has(assets_hierarchy, json_file.projects[i].name)
    /\ Has(json_file.naming_conventions, Meshes)
    /\ Has(naming_conventions, StaticMeshes)

\* Every category of the document file is a bare list, once the program has
\* written the file
WrittenBare == nmut > 0 => (json_file.kind = "mapping" /\ BareLists(json_file.projects))

ProjectKeys(file) ==
    {file.projects[i].name : i \in DOMAIN file.projects} \cup file.others

OnlyMasterAssets ==
    << [name |-> <<"Master Assets">>,
        cats |-> << [name |-> <<"Company Logo">>, wrapped |-> FALSE, assets |-> <<>>],
                    [name |-> <<"Marketing Materials">>, wrapped |-> FALSE, assets |-> <<>>],
                    [name |-> <<"Master Materials">>, wrapped |-> FALSE, assets |-> <<>>],
                    [name |-> <<"Master Textures">>, wrapped |-> FALSE, assets |-> <<>>],
                    [name |-> <<"Master Assets">>, wrapped |-> FALSE, assets |-> <<>>] >>] >>

\* C16: when loading the document file raises, the program starts as it does
\* on an empty document: the hierarchy holds only "Master Assets" with its
\* five empty categories, there are no naming conventions, the list shows
\* "Master Assets" alone and the tree is the start tree, until a handler
\* changes the document; every handler, none of which reads the file, so
\* runs as on a new document
C16_FailedLoadIsEmptyDocument ==
    (nmut = 0 /\ LoadRaises(json_file)) =>
        /\ assets_hierarchy = OnlyMasterAssets
        /\ naming_conventions = <<>>
        /\ projects = << <<"Master Assets">> >>
        /\ fs = StartTree

\* The program has started on a document file that holds a project but
\* cannot be loaded
C16_Witness ==
    /\ nmut = 0
    /\ LoadRaises(json_file)
    /\ json_file.projects # <<>>
    /\ projects = << <<"Master Assets">> >>

----------------------------------------------------------------------------
(* Synchronisation of the tree *)

\* The tree of an outcome of sync_filesystem_with_json
TreeOf(st) == [dirs |-> st.dirs, files |-> st.files]

\* The step is a handler's save whose synchronisation of the tree it found
\* did not raise, and the handler changed the tree in no other way
Synchronises ==
    /\ nmut' = nmut + 1
    /\ ~lastOp'.save_error
    /\ \E first \in sync_filesystem_with_json(fs, assets_hierarchy') :
           ~first.err /\ fs' = TreeOf(first)

\* C17: synchronisation is idempotent: when sync_filesystem_with_json has run
\* on a tree without raising, a second run on the same hierarchy does not
\* raise and leaves the tree of the first run
C17_SyncIdempotent ==
    [][Synchronises =>
        \A second \in sync_filesystem_with_json(fs', assets_hierarchy') :
            ~second.err /\ TreeOf(second) = fs']_vars
\* The known category directories of a tree
CategoryDirs(st, h) ==
    {q \in st.dirs : Len(q) = 2 /\ Has(h, q[1]) /\ Has(Get(h, q[1]).cats, q[2])}

\* A tree with what earlier sessions and other programs left in it: the
\* folder of a project the hierarchy does not have, with its subtree; under
\* every known project a folder that is no category; in every known category
\* a note zz.txt, a note <db_name>.txt for each of its assets, and the
\* folder of an asset it does not have
Littered(st, h) ==
    LET old_show == << <<"Old Show">> >>
        renders  == {<<q[1], <<"Renders">> >> : q \in {x \in st.dirs : Len(x) = 1 /\ Has(h, x[1])}}
        cats     == CategoryDirs(st, h)
        folders  == {Append(q, <<"old_asset">>) : q \in cats}
        notes    == {Append(q, <<"zz", ".txt">>) : q \in cats}
        kept     == UNION {{Append(q, d \o <<".txt">>) :
                               d \in db_names(get_assets(h, q[1], q[2]))} : q \in cats}
    IN  [dirs  |-> st.dirs \cup {old_show, Append(old_show, Textures),
                                 Append(Append(old_show, Textures), <<"x">>)}
                           \cup renders \cup {Append(q, <<"r1">>) : q \in renders}
                           \cup folders,
         files |-> st.files \cup {Append(Append(Append(old_show, Textures), <<"x">>),
                                         <<"x", ".hipnc">>)}
                            \cup {Append(q, <<"old_asset", ".hipnc">>) : q \in folders}
                            \cup notes \cup (kept \ st.dirs),
         err   |-> FALSE]

\* An entry lies in a directory that is directly under the root and no project
InOrphanProject(q, h) == ~Has(h, q[1])

\* An entry lies in a directory of a known project that is no category of it
InOrphanCategory(q, h) ==
    Len(q) >= 2 /\ Has(h, q[1]) /\ ~Has(Get(h, q[1]).cats, q[2])

\* An entry of a known category directory named <base>.txt
IsNote(q, h) ==
    /\ Len(q) = 3 /\ Has(h, q[1]) /\ Has(Get(h, q[1]).cats, q[2])
    /\ splitext(q[3])[2] = <<".txt">>

\* The base name of a note is a db_name of its category
Matches(q, h) == splitext(q[3])[1] \in db_names(get_assets(h, q[1], q[2]))

\* What the pass is to remove from a tree
ToRemove(st, h) ==
    {q \in st.dirs : InOrphanProject(q, h) \/ InOrphanCategory(q, h)}
    \cup {q \in st.files : /\ Len(q) >= 2
                           /\ \/ InOrphanProject(q, h) \/ InOrphanCategory(q, h)
                              \/ (IsNote(q, h) /\ ~Matches(q, h))}

\* C18: cleanup_filesystem removes, with all they hold, every directory
\* under the root that is no project and every directory of a known project
\* that is no category of it, removes from a known category directory every
\* file <base>.txt whose base is no db_name of the category, and removes
\* nothing else: the matching .txt files and the folders of unknown assets stay
C18_CleanupRemovesOrphans ==
    LET st == Littered(fs, assets_hierarchy)
        gone == ToRemove(st, assets_hierarchy)
    IN  \A out \in cleanup_filesystem(st, assets_hierarchy) :
            /\ out.dirs = st.dirs \ gone
            /\ out.files = st.files \ gone

\* The hidden folders a tree has beneath a project, a category or an asset
\* of the hierarchy
HiddenDirs(st, h) == st.dirs \cap Range(HiddenPaths(h))

\* The tree with a file stored in each of those hidden folders
Stocked(st, h) ==
    [st EXCEPT !.files = @ \cup {Append(q, <<"settings">>) : q \in HiddenDirs(st, h)}]

\* C19: hidden folders are exempt from the cleanup: a hidden folder beneath
\* a project, a category or an asset of the hierarchy, and the file stored
\* in it, are still there after sync_filesystem_with_json
C19_HiddenFoldersKept ==
    LET st == Stocked(fs, assets_hierarchy)
    IN  \A out \in sync_filesystem_with_json(st, assets_hierarchy) :
            \A q \in HiddenDirs(st, assets_hierarchy) :
                q \in out.dirs /\ Append(q, <<"settings">>) \in out.files

----------------------------------------------------------------------------
(* Renames on disk *)

\* os.rename(old, new) is attempted on the tree and can be done
Renames(st, old, new) == exists(st, old) /\ CanRename(st, old, new)

\* os.rename(old, new) is attempted on the tree and raises
RenameFails(st, old, new) == exists(st, old) /\ ~CanRename(st, old, new)

\* The files a tree holds in the folders of assets beneath a directory
FilesBeneath(st, dir) == {q \in st.files : IsPrefix(dir, q) /\ Len(q) > 3}

\* A successful rename_project updates and writes the document whatever
\* became of the folder, warns exactly when os.rename raised, and has moved
\* the folder with its files when it did not
ProjectRenamedBestEffort ==
    LET old_name == lastOp'.target
        new_name == strip(lastOp'.arg)
    IN  /\ Has(assets_hierarchy', new_name)
        /\ ~Has(assets_hierarchy', old_name)
        /\ new_name \in Range(projects')
        /\ json_file' = Dump(assets_hierarchy', naming_conventions')
        /\ lastOp'.rename_error = RenameFails(fs, <<old_name>>, <<new_name>>)
        /\ Renames(fs, <<old_name>>, <<new_name>>) =>
               \A q \in FilesBeneath(fs, <<old_name>>) :
                   Moved(<<old_name>>, <<new_name>>, q) \in fs'.files

\* A successful edit_asset_clicked updates and writes the document whatever
\* became of the file and the folder, warns exactly when one os.rename
\* raised, has renamed the file when that could be done, whether or not the
\* folder could be renamed, and has renamed the folder when that could be
\* done, whether or not the file could be renamed
AssetRenamedBestEffort ==
    LET project     == lastOp'.project
        category    == lastOp'.category
        assets      == get_assets(assets_hierarchy, project, category)
        k           == find_asset_by_display_name(assets, lastOp'.target)
        old_db_name == assets[k].db_name
        new_db_name == DbName(naming_conventions, category, lastOp'.arg, lastOp'.variant)
        old_folder  == join(<<project, category>>, old_db_name)
        new_folder  == join(<<project, category>>, new_db_name)
        old_file    == Append(old_folder, old_db_name \o <<".hipnc">>)
        new_file    == Append(old_folder, new_db_name \o <<".hipnc">>)
        file_done   == Renames(fs, old_file, new_file)
        held        == IF file_done THEN rename(fs, old_file, new_file) ELSE fs
        folder_done == Renames(held, old_folder, new_folder)
    IN  /\ get_assets(assets_hierarchy', project, category) =
               [assets EXCEPT ![k] = Asset(lastOp'.arg, new_db_name)]
        /\ json_file' = Dump(assets_hierarchy', naming_conventions')
        /\ lastOp'.rename_error =
               (RenameFails(fs, old_file, new_file)
                    \/ RenameFails(held, old_folder, new_folder))
        /\ (file_done /\ ~folder_done) => new_file \in fs'.files
        /\ folder_done =>
               \A q \in FilesBeneath(held, old_folder) :
                   Moved(old_folder, new_folder, q) \in fs'.files

\* C20: in rename_project and edit_asset_clicked the renames on disk are
\* best effort: the rename of the file and the rename of the folder are each
\* made when they can be, the failure of one neither prevents nor undoes the
\* other, and in every case the document is updated to the new name and
\* written, and the handler ends with its success message
C20_RenamesBestEffort ==
    [][/\ Ran("rename_project") => ProjectRenamedBestEffort
       /\ Ran("edit_asset_clicked") => AssetRenamedBestEffort]_vars

\* The file of an asset named in folder `folder`
FileIn(folder, asset) == Append(folder, asset.db_name \o <<".hipnc">>)

\* edit_asset_clicked has renamed the asset's file although the rename of
\* its folder failed: the file has the new name in the folder of the old one
C20_Witness ==
    /\ lastOp.op = "edit_asset_clicked"
    /\ lastOp.rename_error
    /\ json_file = Dump(assets_hierarchy, naming_conventions)
    /\ \E q \in fs.files :
           /\ Len(q) = 4
           /\ q[1] = lastOp.project /\ q[2] = lastOp.category
           /\ \E k \in DOMAIN get_assets(assets_hierarchy, q[1], q[2]) :
                  LET asset == get_assets(assets_hierarchy, q[1], q[2])[k]
                  IN  /\ asset.display_name = lastOp.arg
                      /\ q = FileIn(<<q[1], q[2], q[3]>>, asset)
                      /\ q[3] # asset.db_name

----------------------------------------------------------------------------
(* Persistence *)

\* What __init__ holds after loading a document file: the hierarchy and the
\* naming conventions
Loaded(file) ==
    LET data == load_assets_from_json(file)
    IN  [assets_hierarchy |-> EnsureMaster(data.projects),
         naming_conventions |-> data.naming_conventions]

\* C21: every successful change is written before the handler returns: after
\* a successful add_project, rename_project, delete_project,
\* create_asset_clicked, edit_asset_clicked or delete_asset_clicked, loading
\* the document file gives the hierarchy and the naming conventions held in
\* memory, whatever accepted project name was typed
C21_ChangesPersisted ==
    [][nmut' = nmut + 1 =>
        Loaded(json_file') = [assets_hierarchy |-> assets_hierarchy',
                              naming_conventions |-> naming_conventions']]_vars

----------------------------------------------------------------------------
(* The project list *)

\* The project list has no duplicates, holds exactly the keys of the
\* hierarchy and starts with "Master Assets"
ListMatchesHierarchy ==
    /\ \A i, j \in DOMAIN projects : projects[i] = projects[j] => i = j
    /\ Range(projects) = {assets_hierarchy[i].name : i \in DOMAIN assets_hierarchy}
    /\ Len(projects) = Len(assets_hierarchy)
    /\ projects # <<>> /\ projects[1] = <<"Master Assets">>

\* Until the first change the list is in the order of the keys of the file
\* behind "Master Assets"
ListedAsLoaded ==
    nmut = 0 =>
        LET keys == [i \in DOMAIN assets_hierarchy |-> assets_hierarchy[i].name]
        IN  SubSeq(projects, 2, Len(projects)) =
                SelectSeq(keys, LAMBDA name : name # <<"Master Assets">>)

\* A step keeps the projects in their order and puts a new one last; a
\* renamed project keeps its place
OrderKept ==
    IF Ran("rename_project")
    THEN projects' = [projects EXCEPT ![Position(projects, lastOp'.target)] =
                                          strip(lastOp'.arg)]
    ELSE projects' =
            SelectSeq(projects, LAMBDA name : name \in Range(projects'))
            \o SelectSeq(projects', LAMBDA name : name \notin Range(projects))

\* C22: in every state the project list has no duplicates, holds exactly the
\* names that are keys of the hierarchy in memory, has "Master Assets" first
\* and lists the other projects in the order in which they were inserted
C22_ProjectListOrdered ==
    /\ [](ListMatchesHierarchy /\ ListedAsLoaded)
    /\ [][OrderKept]_vars

\* A project between two others has been renamed
C22_Witness ==
    /\ lastOp.op = "rename_project"
    /\ Len(projects) = 3
    /\ projects[2] = strip(lastOp.arg)
    /\ projects[1] = <<"Master Assets">>

----------------------------------------------------------------------------
(* The order of update, save and rename *)

\* The answers to the dialogs of edit_asset_clicked that the handler accepts
\* for the button display_name
AcceptedEdits(display_name) ==
    {e \in [new_display_name : DisplayTexts,
            variant : VariantChoices(naming_conventions, selected_category)] :
        \E r \in edit_asset_clicked(display_name, TRUE, e.new_display_name,
                                    e.variant, TRUE) : r.result = "ok"}

\* The db_name that a hierarchy records for asset k of the selected category
Recorded(h, k) == get_assets(h, selected_project, selected_category)[k].db_name

\* C23: in edit_asset_clicked the hierarchy is updated and saved before the
\* renames on disk: at the moment os.rename is called for the asset's file
\* or folder, the hierarchy in memory and the document file record the new
\* db_name
C23_SavedBeforeRename ==
    (nmut < MaxOps /\ asset_window.open) =>
        \A display_name \in Buttons : \A e \in AcceptedEdits(display_name) :
            LET calls == edit_asset_renames(display_name, e.new_display_name, e.variant)
            IN  \A i \in DOMAIN calls :
                    /\ Recorded(calls[i].h, calls[i].k) = calls[i].db_name
                    /\ Recorded(Loaded(calls[i].file).assets_hierarchy, calls[i].k)
                           = calls[i].db_name

----------------------------------------------------------------------------
(* Two processes *)

\* The project names of a hierarchy
Names(h) == {h[i].name : i \in DOMAIN h}

\* The projects that only the second process holds
OnlyOther(h) == Names(other.assets_hierarchy) \ Names(h)

\* C24: with two processes on the same file and root and no lock, the
\* process that saves last wins: after its save the document file holds its
\* hierarchy alone, so a project or an asset that only the other process
\* holds is missing from the file, and when its synchronisation did not raise
\* the directory of such a project is gone from the tree
C24_LastSaveWins ==
    [][(nmut' = nmut + 1 /\ other' = other) =>
        /\ json_file'.projects = Remove(assets_hierarchy', NamingConventionsKey)
        /\ \A name \in OnlyOther(assets_hierarchy') :
               /\ ~Has(json_file'.projects, name)
               /\ ~lastOp'.save_error => ~exists(fs', <<name>>)]_vars

\* A project that the other process created, and saved, is missing from the
\* file and from the tree after an add_project in this process
C24_Witness ==
    /\ nmut = 2
    /\ lastOp.op = "add_project" /\ ~lastOp.save_error
    /\ other # NoInstance
    /\ \E name \in OnlyOther(assets_hierarchy) :
           /\ \A file \in SharedFiles : ~Has(file.projects, name)
           /\ name # NamingConventionsKey
           /\ name \in Range(other.projects)
           /\ ~Has(json_file.projects, name)
           /\ ~exists(fs, <<name>>)

----------------------------------------------------------------------------
(* The selection behind the open windows *)

\* C25: whenever a handler of an open category or asset window can run, the
\* selected project is a project of the hierarchy and, for the asset window,
\* the selected category is one of its categories, also after
\* delete_project or rename_project was run on that project from the main
\* window: no handler of these windows raises KeyError
C25_SelectionExists ==
    /\ category_window.open =>
           /\ Has(assets_hierarchy, selected_project)
           /\ \A category \in Range(category_window.items) :
                  \A r \in category_button_clicked(category) : r.result # "KeyError"
    /\ asset_window.open =>
           /\ ~KeyError(assets_hierarchy, selected_project, selected_category)
           /\ \A display_name \in Buttons :
                  \A r \in delete_asset_clicked(display_name, FALSE) :
                      r.result # "KeyError"

----------------------------------------------------------------------------
(* The folder of a deleted asset *)

\* The files create_new_file writes for an asset
Written(project, category, db_name) ==
    LET asset_folder == <<project, category, db_name>>
    IN  { Append(Append(asset_folder, <<"__config">>), db_name \o <<"_Config.py">>),
          Append(asset_folder, db_name \o <<".hipnc">>) }

\* C26: when an asset has been deleted and an asset with its db_name is
\* created in the same category, the folder of the new asset holds nothing
\* that was there before: no Houdini file and no other file of the deleted
\* asset
C26_NoLeftovers ==
    (/\ nmut < MaxOps
     /\ asset_window.open
     /\ lastOp.op = "delete_asset_clicked"
     /\ lastOp.project = selected_project
     /\ lastOp.category = selected_category) =>
        \A display_name \in DisplayTexts, houdini \in BOOLEAN,
           variant \in VariantChoices(naming_conventions, selected_category) :
            LET db_name == DbName(naming_conventions, selected_category,
                                  display_name, variant)
                folder  == <<selected_project, selected_category, db_name>>
                anew    == IF houdini
                           THEN Written(selected_project, selected_category, db_name)
                           ELSE {}
            IN  \A r \in create_asset_clicked(display_name, TRUE, variant, TRUE, houdini) :
                    (r.result = "ok" /\ db_name # <<>>) =>
                        \A q \in r.tree.files :
                            (IsPrefix(folder, q) /\ q \in fs.files) => q \in anew

----------------------------------------------------------------------------
(* The data of a renamed project *)

\* C27: rename_project destroys no data on disk: after the handler and its
\* save, every file that was in an asset folder of the old project folder is
\* under the new project folder or still under the old one, also when
\* os.rename raised
C27_RenameKeepsData ==
    [][Ran("rename_project") =>
        LET old_name == lastOp'.target
            new_name == strip(lastOp'.arg)
        IN  \A q \in FilesBeneath(fs, <<old_name>>) :
                \/ q \in fs'.files
                \/ Moved(<<old_name>>, <<new_name>>, q) \in fs'.files]_vars

----------------------------------------------------------------------------
(* The assets of a migrated document *)

\* C28: migration loses no asset: every asset of every category of every
\* project of the document file is in the loaded document, under the name
\* the category has after migration, also when a project has both "Meshes"
\* and "Static Meshes"
C28_MigrationKeepsAssets ==
    ~LoadRaises(json_file) =>
        LET data == load_assets_from_json(json_file)
        IN  \A i \in DOMAIN json_file.projects :
                LET old == json_file.projects[i].cats
                    new == Get(data.projects, json_file.projects[i].name).cats
                IN  \A j \in DOMAIN old : \A k \in DOMAIN old[j].assets :
                        /\ Has(new, NewName(old[j].name))
                        /\ Upgraded(old[j].assets[k]) \in
                               Range(Get(new, NewName(old[j].name)).assets)

====
